---------------------------- MODULE Spec2Model ----------------------------
(***************************************************************************)
(* JSON::JSONBuilder (Source/JSON/JSONBuilder.h): a streaming, append-only *)
(* JSON writer over one growable std::string.                              *)
(*                                                                         *)
(* A byte is a number 0..255.  A byte sequence (a key, a value, the output *)
(* str()) is a TLA+ sequence: index i of the code is element i+1.          *)
(* The std::string `buf` is the record [data, size]: size is buf.size()    *)
(* and data are its leading bytes; the bytes from index Len(data) up to    *)
(* size are the 0 bytes resize() padded with and nothing has overwritten.  *)
(* sResize, sStore, sStoreN and sPrefix are resize(), a byte store, memcpy *)
(* into the string and the leading bytes of the string on that record.     *)
(*                                                                         *)
(* A builder value is the record [buf, cursor, need_comma] of the three    *)
(* fields plus two ghost fields that only observe the run:                 *)
(*   oob   a byte was written at an index >= buf.size()                    *)
(*   elog  one entry per ensure() call of the current operation            *)
(* Every private helper is an operator from builder to builder, written    *)
(* statement by statement; every public method is an action.               *)
(***************************************************************************)
EXTENDS Integers, Sequences, FiniteSets, TLC

VARIABLES buf, cursor, need_comma,  \* the fields of the builder
          oob, elog,                \* ghosts: see above
          lastOp,                   \* ghost: name of the last public call
          prev,                     \* ghost: the builder before the last call
          ref,                      \* ghost: a newly constructed builder run
                                    \*   in lockstep since the last reset
          resets,                   \* ghost: "none" / "clear" / "take": the
                                    \*   last reset
          taken,                    \* ghost: what the last take() or str()
                                    \*   returned
          nops,                     \* ghost: number of calls made so far
          caller                    \* ghost: what the calling code keeps track
                                    \*   of (used by the specifications of a
                                    \*   disciplined caller, further down)

vars == <<buf, cursor, need_comma, oob, elog, lastOp, prev, ref, resets,
          taken, nops, caller>>

-----------------------------------------------------------------------------
(* Bounds of the exploration *)

MaxOps == 2      \* public calls per behaviour of Spec
MaxSeq == 3      \* public calls per behaviour of SpecReuse
MaxStrLen == 2   \* length of the strings given to the escaping calls
MaxElems == 3    \* elements of the array / pairs of the object of SpecSeq
MaxDepth == 3    \* arrays / objects open at once in SpecWF
MaxCalls == 6    \* public calls per behaviour of SpecWF
LongLen == 1015  \* length of the long raw payload (drives the cursor to the
                 \* end of the initial buffer)

-----------------------------------------------------------------------------
(* Character codes used by the code *)

QUOTE == 34
BACKSLASH == 92
COMMA == 44
COLON == 58
LBRACE == 123
RBRACE == 125
LBRACKET == 91
RBRACKET == 93
MINUS == 45
ZERO == 48
BS == 8
TAB == 9
NL == 10
FF == 12
CR == 13
SPACE == 32

InitialSize == 1024

StrTrue == <<116, 114, 117, 101>>
StrFalse == <<102, 97, 108, 115, 101>>
StrNull == <<110, 117, 108, 108>>

Max(a, b) == IF a >= b THEN a ELSE b

Zeros(n) == [i \in 1..n |-> 0]

Min(a, b) == IF a <= b THEN a ELSE b

\* std::string::resize(n): keep the first n bytes, pad with '\0'.
sResize(s, n) ==
  [data |-> SubSeq(s.data, 1, Min(n, Len(s.data))), size |-> n]

\* The first n bytes of the string (n <= size).
sPrefix(s, n) ==
  IF n <= Len(s.data) THEN SubSeq(s.data, 1, n)
  ELSE s.data \o Zeros(n - Len(s.data))

\* The string with bytes stored from index i on (i + Len(bytes) <= size).
sStoreN(s, i, bytes) ==
  LET n == Len(bytes)
  IN  [s EXCEPT !.data = sPrefix(s, i) \o bytes
                           \o SubSeq(s.data, i + n + 1, Len(s.data))]

sStore(s, i, c) ==
  IF i < Len(s.data) THEN [s EXCEPT !.data[i + 1] = c]
  ELSE sStoreN(s, i, <<c>>)

-----------------------------------------------------------------------------
(* Private helpers *)

\* buf[cursor++] = c.  Writing at an index >= size() is out of bounds: the
\* ghost records it and the string itself is left as it was.
putc(b, c) ==
  IF b.cursor < b.buf.size
    THEN [b EXCEPT !.buf = sStore(@, b.cursor, c), !.cursor = @ + 1]
    ELSE [b EXCEPT !.oob = TRUE, !.cursor = @ + 1]

\* std::memcpy(&buf[cursor], data, len); cursor += len;  (data is the len
\* bytes copied).  Bytes that would land at an index >= size() are out of
\* bounds: the ghost records it and only the bytes that fit are stored.
memcpy(b, data) ==
  LET n == Len(data)
      at == Min(b.cursor, b.buf.size)
      fit == Min(n, b.buf.size - at)
  IN  IF n = 0 THEN b
      ELSE [b EXCEPT
             !.buf = sStoreN(@, at, SubSeq(data, 1, fit)),
             !.oob = @ \/ (b.cursor + n > b.buf.size),
             !.cursor = @ + n]

\* growTo without the doubling.
growToExact(b, len) == b.cursor + len + 64

\* The size ensure() resizes to.
growTo(b, len) == Max(b.buf.size * 2, b.cursor + len + 64)

\* ensure with the requested length left out of the test.
ensureNoLen(b, len) ==
  LET nbuf == IF b.cursor >= b.buf.size
                THEN sResize(b.buf, growTo(b, len))
                ELSE b.buf
  IN  [b EXCEPT
        !.buf = nbuf,
        !.elog = Append(@, [cursor |-> b.cursor, len |-> len,
                            old |-> b.buf.size, new |-> nbuf.size,
                            kept |-> TRUE])]

ensure(b, len) ==
  LET nbuf == IF b.cursor + len >= b.buf.size
                THEN sResize(b.buf, growTo(b, len))
                ELSE b.buf
  IN  [b EXCEPT
        !.buf = nbuf,
        !.elog = Append(@, [cursor |-> b.cursor, len |-> len,
                            old |-> b.buf.size, new |-> nbuf.size,
                            kept |-> \/ nbuf = b.buf
                                     \/ sPrefix(nbuf, Min(b.cursor, nbuf.size))
                                          = sPrefix(b.buf, Min(b.cursor, b.buf.size))])]

writeRaw(b, data) == memcpy(b, data)

\* comma with need_comma = true inside the if.
commaInsideIf(b) ==
  IF b.need_comma
    THEN [putc(ensure(b, 1), COMMA) EXCEPT !.need_comma = TRUE]
    ELSE b

comma(b) ==
  LET b1 == IF b.need_comma THEN putc(ensure(b, 1), COMMA) ELSE b
  IN  [b1 EXCEPT !.need_comma = TRUE]

\* appendKeyImpl without need_comma = false.
appendKeyImplKeepComma(b, k) ==
  LET b1 == ensure(b, Len(k) + 4)
      b2 == IF b1.need_comma THEN putc(b1, COMMA) ELSE b1
      b3 == putc(b2, QUOTE)
      b4 == memcpy(b3, k)
      b5 == putc(b4, QUOTE)
  IN  putc(b5, COLON)

appendKeyImpl(b, k) ==
  LET b1 == ensure(b, Len(k) + 4)
      b2 == IF b1.need_comma THEN putc(b1, COMMA) ELSE b1
      b3 == putc(b2, QUOTE)
      b4 == memcpy(b3, k)
      b5 == putc(b4, QUOTE)
      b6 == putc(b5, COLON)
  IN  [b6 EXCEPT !.need_comma = FALSE]

\* The replacement the switch of escapeString selects; <<>> is repl == NULL.
escRepl(c) ==
  CASE c = QUOTE     -> <<BACKSLASH, QUOTE>>
    [] c = BACKSLASH -> <<BACKSLASH, BACKSLASH>>
    [] c = BS        -> <<BACKSLASH, 98>>
    [] c = FF        -> <<BACKSLASH, 102>>
    [] c = NL        -> <<BACKSLASH, 110>>
    [] c = CR        -> <<BACKSLASH, 114>>
    [] c = TAB       -> <<BACKSLASH, 116>>
    [] OTHER         -> <<>>

\* if (i > start) { memcpy(&buf[cursor], s + start, i - start); cursor += i - start; }
flushRun(b, s, start, i) ==
  IF i > start THEN memcpy(b, SubSeq(s, start + 1, i)) ELSE b

\* The for loop of escapeString from index i on; yields the builder and
\* `start` when the loop ends.
RECURSIVE escLoop(_, _, _, _)
escLoop(b, s, i, start) ==
  IF i >= Len(s) THEN [b |-> b, start |-> start]
  ELSE LET c == s[i + 1]
           repl == escRepl(c)
       IN  IF repl = <<>>
             THEN \* default: a control byte ends the pending run and is skipped
                  IF c < SPACE
                    THEN escLoop(flushRun(b, s, start, i), s, i + 1, i + 1)
                    ELSE escLoop(b, s, i + 1, start)
             ELSE escLoop(memcpy(flushRun(b, s, start, i), repl), s, i + 1, i + 1)

escapeString(b, s) ==
  LET b1 == putc(ensure(b, Len(s) * 2 + 2), QUOTE)
      r  == escLoop(b1, s, 0, 0)
      b2 == IF r.start < Len(s)
              THEN memcpy(r.b, SubSeq(s, r.start + 1, Len(s)))
              ELSE r.b
  IN  putc(b2, QUOTE)

RECURSIVE Pow2(_)
Pow2(n) == IF n = 0 THEN 1 ELSE 2 * Pow2(n - 1)

\* The while loop of writeInt / writeUInt: the digits of uval, filled into
\* temp from its end, so most significant first.
RECURSIVE digitLoop(_)
digitLoop(uval) ==
  IF uval > 0 THEN Append(digitLoop(uval \div 10), ZERO + (uval % 10)) ELSE <<>>

\* writeInt negating in the signed type T itself: the minimum value has no
\* positive counterpart and stays negative, so the digit loop does not run.
writeIntSignedNegate(b, value, w) ==
  LET b1 == ensure(b, 24)
      neg == IF -value > Pow2(w - 1) - 1 THEN -value - Pow2(w) ELSE -value
      uval == IF value < 0 THEN neg ELSE value
      b2 == IF value < 0 THEN putc(b1, MINUS) ELSE b1
  IN  IF value = 0 THEN putc(b1, ZERO)
      ELSE memcpy(b2, digitLoop(uval))

\* writeInt<T> for a signed type T of w bits; uval has the unsigned type of
\* the same width, so the negation is taken modulo 2^w.
writeInt(b, value, w) ==
  LET b1 == ensure(b, 24)
      cast == value % Pow2(w)               \* static_cast<unsigned T>(value)
      uval == IF value < 0 THEN (-cast) % Pow2(w) ELSE cast
      b2 == IF value < 0 THEN putc(b1, MINUS) ELSE b1
  IN  IF value = 0 THEN putc(b1, ZERO)
      ELSE memcpy(b2, digitLoop(uval))

writeUInt(b, value) ==
  LET b1 == ensure(b, 24)
  IN  IF value = 0 THEN putc(b1, ZERO)
      ELSE memcpy(b1, digitLoop(value))

\* writeDouble; txt is what snprintf("%.6g", v) produces for v (len bytes,
\* 0 < len < 32), followed by the terminating '\0' snprintf stores; the
\* cursor advances over the len bytes only.
writeDouble(b, txt) ==
  LET b1 == ensure(b, 32)
      b2 == memcpy(b1, txt)
  IN  [putc(b2, 0) EXCEPT !.cursor = b2.cursor]

writeBool(b, v) ==
  IF v THEN writeRaw(ensure(b, 4), StrTrue)
       ELSE writeRaw(ensure(b, 5), StrFalse)

writeNull(b) == writeRaw(ensure(b, 4), StrNull)

-----------------------------------------------------------------------------
(* Public methods, as operators from builder to builder *)

\* JSONBuilder(): cursor(0), need_comma(false), buf.resize(1024)
EmptyString == [data |-> <<>>, size |-> 0]

New ==
  [buf |-> sResize(EmptyString, InitialSize), cursor |-> 0,
   need_comma |-> FALSE, oob |-> FALSE, elog |-> <<>>]

\* clear without need_comma = false.
clearCursorOnly(b) == [b EXCEPT !.cursor = 0]

clear(b) == [b EXCEPT !.cursor = 0, !.need_comma = FALSE]

\* str returning the whole buffer instead of its first cursor bytes.
strWhole(b) == sPrefix(b.buf, b.buf.size)

\* std::string(buf.data(), cursor)
str(b) == sPrefix(b.buf, b.cursor)

size(b) == b.cursor

\* take without buf.resize(cursor): the whole buffer is handed out.
takeWhole(b) ==
  [b |-> [b EXCEPT !.buf = sResize(EmptyString, InitialSize),
                   !.cursor = 0, !.need_comma = FALSE],
   result |-> sPrefix(b.buf, b.buf.size)]

\* take(): the builder afterwards and the string returned.
take(b) ==
  LET shrunk == sResize(b.buf, b.cursor)   \* buf.resize(cursor)
      \* result.swap(buf): result is the shrunk string, buf is empty
  IN  [b |-> [b EXCEPT !.buf = sResize(EmptyString, InitialSize),
                       !.cursor = 0, !.need_comma = FALSE],
       result |-> sPrefix(shrunk, shrunk.size)]

start(b) ==
  LET b1 == putc(ensure(comma(b), 1), LBRACE)
  IN  [b1 EXCEPT !.need_comma = FALSE]

\* end closing over the last byte written, as a builder that writes
\* trailing separators would.
endOverLast(b) ==
  LET b1 == IF b.cursor > 0
              THEN [b EXCEPT !.buf = sStore(@, b.cursor - 1, RBRACE)]
              ELSE putc(ensure(b, 1), RBRACE)
  IN  [b1 EXCEPT !.need_comma = TRUE]

\* end that checks for output to close and does nothing on an empty builder.
endIfOpen(b) ==
  IF b.cursor = 0 THEN b
  ELSE [putc(ensure(b, 1), RBRACE) EXCEPT !.need_comma = TRUE]

end(b) ==
  LET b1 == putc(ensure(b, 1), RBRACE)
  IN  [b1 EXCEPT !.need_comma = TRUE]

\* startArray without need_comma = false.
startArrayKeepComma(b) == putc(ensure(comma(b), 1), LBRACKET)

startArray(b) ==
  LET b1 == putc(ensure(comma(b), 1), LBRACKET)
  IN  [b1 EXCEPT !.need_comma = FALSE]

endArray(b) ==
  LET b1 == putc(ensure(b, 1), RBRACKET)
  IN  [b1 EXCEPT !.need_comma = TRUE]

\* key passing the name through the escaping of string values.
keyEscaped(b, k) ==
  LET b1 == IF b.need_comma THEN putc(ensure(b, 1), COMMA) ELSE b
      b2 == putc(ensure(escapeString(b1, k), 1), COLON)
  IN  [b2 EXCEPT !.need_comma = FALSE]

key(b, k) == appendKeyImpl(b, k)

\* The inlined key prefix of every literal-key overload, after its
\* ensure(N + extra); k is the literal without its terminating '\0', so the
\* array length N is Len(k) + 1 and N - 1 bytes are copied.
\* The literal-key prefix copying all N bytes of the array, the terminating
\* '\0' included.
litKeyWithNul(b, k, extra) ==
  LET b1 == ensure(b, Len(k) + 1 + extra)
      b2 == IF b1.need_comma THEN putc(b1, COMMA) ELSE b1
      b3 == memcpy(putc(b2, QUOTE), k \o <<0>>)
  IN  putc(putc(b3, QUOTE), COLON)

litKey(b, k, extra) ==
  LET b1 == ensure(b, Len(k) + 1 + extra)
      b2 == IF b1.need_comma THEN putc(b1, COMMA) ELSE b1
      b3 == putc(b2, QUOTE)
      b4 == memcpy(b3, k)
      b5 == putc(b4, QUOTE)
  IN  putc(b5, COLON)

setComma(b) == [b EXCEPT !.need_comma = TRUE]

\* Literal-key overloads
addLitInt(b, k, v, w) == setComma(writeInt(litKey(b, k, 27), v, w))
addLitUInt(b, k, v) == setComma(writeUInt(litKey(b, k, 27), v))
addLitDouble(b, k, txt) == setComma(writeDouble(litKey(b, k, 35), txt))
addLitBool(b, k, v) == setComma(writeBool(litKey(b, k, 8), v))
addLitNull(b, k) == setComma(writeNull(litKey(b, k, 7)))
addLitString(b, k, v) == setComma(escapeString(litKey(b, k, 3), v))

\* addSafe escaping its value as addString does.
addLitSafeEscaped(b, k, v) ==
  setComma(escapeString(litKey(b, k, Len(v) + 5), v))

\* addSafe(const char (&k)[N], const std::string& v)
addLitSafe(b, k, v) ==
  LET b1 == litKey(b, k, Len(v) + 5)
      b2 == putc(b1, QUOTE)
      b3 == memcpy(b2, v)
  IN  setComma(putc(b3, QUOTE))

\* addSafe(const char (&k)[N], const char (&v)[M]): M is Len(v) + 1
addLitSafeLit(b, k, v) ==
  LET b1 == litKey(b, k, (Len(v) + 1) + 4)
      b2 == putc(b1, QUOTE)
      b3 == memcpy(b2, v)
  IN  setComma(putc(b3, QUOTE))

addLitRaw(b, k, v) == setComma(memcpy(litKey(b, k, Len(v) + 3), v))

\* addStringOrNull, literal key, std::string value and const char* value: a
\* C string is a byte sequence without '\0', or NULLPTR (no byte sequence).
NULLPTR == <<-1>>

addLitStringOrNull(b, k, val) ==
  LET b1 == litKey(b, k, 3)
  IN  setComma(IF val = <<>> THEN writeNull(b1) ELSE escapeString(b1, val))

addLitStringOrNullC(b, k, val) ==
  LET b1 == litKey(b, k, 3)
  IN  setComma(IF val = NULLPTR \/ val = <<>> THEN writeNull(b1)
               ELSE escapeString(b1, val))

\* Runtime-key overloads
\* add without need_comma = true after the value.
addIntNoFlag(b, k, v, w) == writeInt(appendKeyImpl(b, k), v, w)

addInt(b, k, v, w) == setComma(writeInt(appendKeyImpl(b, k), v, w))
addUInt(b, k, v) == setComma(writeUInt(appendKeyImpl(b, k), v))
addDouble(b, k, txt) == setComma(writeDouble(appendKeyImpl(b, k), txt))
addBool(b, k, v) == setComma(writeBool(appendKeyImpl(b, k), v))
addRaw(b, k, v) ==
  setComma(writeRaw(ensure(appendKeyImpl(b, k), Len(v)), v))
\* addString copying the value between the quotes without escaping it.
addStringVerbatim(b, k, v) ==
  LET b1 == putc(ensure(appendKeyImpl(b, k), Len(v) + 2), QUOTE)
  IN  setComma(putc(memcpy(b1, v), QUOTE))

addString(b, k, v) == setComma(escapeString(appendKeyImpl(b, k), v))
addNull(b, k) == setComma(writeNull(appendKeyImpl(b, k)))

\* addOrNull with the comparison against the sentinel left out.
addOrNullNoSentinel(b, k, val, undefined, w) ==
  setComma(writeInt(appendKeyImpl(b, k), val, w))

addOrNull(b, k, val, undefined, w) ==
  LET b1 == appendKeyImpl(b, k)
  IN  setComma(IF val = undefined THEN writeNull(b1) ELSE writeInt(b1, val, w))

addStringOrNull(b, k, val) ==
  LET b1 == appendKeyImpl(b, k)
  IN  setComma(IF val = <<>> THEN writeNull(b1) ELSE escapeString(b1, val))

\* addIf / addStringIf: `if (condition) return add(k, val);`.  k is the
\* array const char (&)[N]; for the call add(k, val) the array-to-pointer
\* conversion ranks as an exact match and a non-template function is
\* preferred to a template, so the call resolves to add(const char*, T)
\* (resp. addString(const char*, const std::string&)).
\* addIf that leaves the pending separator behind when the condition is
\* false.
addIfSeparator(b, condition, k, v, w) ==
  IF condition THEN addInt(b, k, v, w) ELSE comma(b)

addIf(b, condition, k, v, w) == IF condition THEN addInt(b, k, v, w) ELSE b

addStringIf(b, condition, k, val) ==
  IF condition THEN addString(b, k, val) ELSE b

\* Bare values
valueInt(b, v, w) == writeInt(comma(b), v, w)
valueUInt(b, v) == writeUInt(comma(b), v)
valueDouble(b, txt) == writeDouble(comma(b), txt)
valueBool(b, v) == writeBool(comma(b), v)
valueString(b, v) == escapeString(comma(b), v)
valueRaw(b, v) == writeRaw(ensure(comma(b), Len(v)), v)
valueNull(b) == writeNull(comma(b))

\* valueSafe(const char (&v)[N]): N is Len(v) + 1
valueSafeLit(b, v) ==
  LET b1 == putc(ensure(comma(b), (Len(v) + 1) + 1), QUOTE)
  IN  putc(memcpy(b1, v), QUOTE)

valueSafe(b, v) ==
  LET b1 == putc(ensure(comma(b), Len(v) + 2), QUOTE)
  IN  putc(memcpy(b1, v), QUOTE)

valueOrNull(b, val, undefined, w) ==
  LET b1 == comma(b)
  IN  IF val = undefined THEN writeNull(b1) ELSE writeInt(b1, val, w)

valueStringOrNull(b, val) ==
  LET b1 == comma(b)
  IN  IF val = <<>> THEN writeNull(b1) ELSE escapeString(b1, val)

valueStringOrNullC(b, val) ==
  LET b1 == comma(b)
  IN  IF val = NULLPTR \/ val = <<>> THEN writeNull(b1)
      ELSE escapeString(b1, val)

-----------------------------------------------------------------------------
(* Inputs of the calls *)

IntBits == 8    \* width of the signed integer type the integer calls use

Keys == {<<>>, <<107>>}                    \* "" and "k"
K == <<107>>                               \* the key "k"
IntVals == {0, -7}
Sentinel == 0                              \* the `undefined` of the OrNull calls
UIntVals == {15}
\* snprintf(&buf[cursor], 32, "%.6g", v) for some doubles v: the texts the
\* C library may produce.  For a NaN and an infinity the C standard gives
\* [-]nan (or [-]nan(chars)) and [-]inf (or [-]infinity): the common ones
\* are listed.
Snprintf6g(v) ==
  CASE v = "1.5"   -> {<<49, 46, 53>>}                   \* 1.5
    [] v = "1e21"  -> {<<49, 101, 43, 50, 49>>}          \* 1e+21
    [] v = "NaN"   -> {<<110, 97, 110>>, <<45, 110, 97, 110>>}   \* nan, -nan
    [] v = "Inf"   -> {<<105, 110, 102>>}                \* inf

FiniteDoubles == {"1.5", "1e21"}
Doubles == FiniteDoubles \cup {"NaN", "Inf"}

DoubleTexts == Snprintf6g("1.5")
Long == [i \in 1..LongLen |-> 120]         \* LongLen times 'x'
StrVals == {<<>>, <<97, QUOTE>>}           \* "" and a"
RawVals == {<<49>>, Long}                  \* 1 and the long payload
CStrVals == {NULLPTR, <<97>>}

-----------------------------------------------------------------------------
(* The builder under arbitrary public calls *)

\* The builder, and the reference builder, at the start of a call.
Self ==
  [buf |-> buf, cursor |-> cursor, need_comma |-> need_comma, oob |-> oob,
   elog |-> <<>>]

Ref == [ref EXCEPT !.elog = <<>>]

Snapshot ==
  [str |-> str(Self), size |-> buf.size, need_comma |-> need_comma]

\* One public call `name`: the builder becomes nb.
Step(name, nb) ==
  /\ nops' = nops + 1
  /\ buf' = nb.buf
  /\ cursor' = nb.cursor
  /\ need_comma' = nb.need_comma
  /\ oob' = nb.oob
  /\ elog' = nb.elog
  /\ lastOp' = name
  /\ prev' = Snapshot

Call(name, nb) ==
  /\ nops < MaxOps
  /\ Step(name, nb)
  /\ UNCHANGED <<ref, resets, taken, caller>>

NoCaller == [phase |-> "any"]

InitBuilder ==
  /\ buf = New.buf
  /\ cursor = New.cursor
  /\ need_comma = New.need_comma
  /\ oob = FALSE
  /\ elog = <<>>
  /\ ref = New
  /\ lastOp = "new"
  /\ prev = [str |-> <<>>, size |-> 0, need_comma |-> FALSE]
  /\ resets = "none"
  /\ taken = <<>>
  /\ nops = 0

Init == InitBuilder /\ caller = NoCaller

Clear ==
  /\ nops < MaxOps
  /\ Step("clear", clear(Self))
  /\ resets' = "clear"
  /\ UNCHANGED <<ref, taken, caller>>

Take ==
  /\ nops < MaxOps
  /\ Step("take", take(Self).b)
  /\ resets' = "take"
  /\ taken' = take(Self).result
  /\ UNCHANGED <<ref, caller>>

\* str() const and size() const: the builder is not written; str() hands
\* out a copy, size() a number.
Str ==
  /\ nops < MaxOps
  /\ Step("str", Self)
  /\ taken' = str(Self)
  /\ UNCHANGED <<ref, resets, caller>>

Size == Call("size", Self)

Start == Call("start", start(Self))
End == Call("end", end(Self))
StartArray == Call("startArray", startArray(Self))
EndArray == Call("endArray", endArray(Self))
Key == \E k \in Keys : Call("key", key(Self, k))

AddLitInt ==
  \E k \in Keys, v \in IntVals : Call("add", addLitInt(Self, k, v, IntBits))
AddLitUInt ==
  \E k \in Keys, v \in UIntVals : Call("add", addLitUInt(Self, k, v))
AddLitDouble ==
  \E k \in Keys, x \in DoubleTexts : Call("add", addLitDouble(Self, k, x))
AddLitBool ==
  \E k \in Keys, v \in BOOLEAN : Call("add", addLitBool(Self, k, v))
AddLitNull == \E k \in Keys : Call("addNull", addLitNull(Self, k))
AddLitString ==
  \E k \in Keys, v \in StrVals : Call("addString", addLitString(Self, k, v))
AddLitSafe ==
  \E k \in Keys, v \in RawVals : Call("addSafe", addLitSafe(Self, k, v))
AddLitSafeLit ==
  \E k \in Keys, v \in RawVals : Call("addSafe", addLitSafeLit(Self, k, v))
AddLitRaw ==
  \E k \in Keys, v \in RawVals : Call("addRaw", addLitRaw(Self, k, v))
AddLitStringOrNull ==
  \E k \in Keys, v \in StrVals :
    Call("addStringOrNull", addLitStringOrNull(Self, k, v))
AddLitStringOrNullC ==
  \E k \in Keys, v \in CStrVals :
    Call("addStringOrNull", addLitStringOrNullC(Self, k, v))
AddIf ==
  \E c \in BOOLEAN, k \in Keys, v \in IntVals :
    Call("addIf", addIf(Self, c, k, v, IntBits))
AddStringIf ==
  \E c \in BOOLEAN, k \in Keys, v \in StrVals :
    Call("addStringIf", addStringIf(Self, c, k, v))

AddInt ==
  \E k \in Keys, v \in IntVals : Call("add", addInt(Self, k, v, IntBits))
AddUInt == \E k \in Keys, v \in UIntVals : Call("add", addUInt(Self, k, v))
AddDouble ==
  \E k \in Keys, x \in DoubleTexts : Call("add", addDouble(Self, k, x))
AddBool == \E k \in Keys, v \in BOOLEAN : Call("add", addBool(Self, k, v))
AddRaw == \E k \in Keys, v \in RawVals : Call("addRaw", addRaw(Self, k, v))
AddString ==
  \E k \in Keys, v \in StrVals : Call("addString", addString(Self, k, v))
AddNull == \E k \in Keys : Call("addNull", addNull(Self, k))
AddOrNull ==
  \E k \in Keys, v \in IntVals :
    Call("addOrNull", addOrNull(Self, k, v, Sentinel, IntBits))
AddStringOrNull ==
  \E k \in Keys, v \in StrVals :
    Call("addStringOrNull", addStringOrNull(Self, k, v))

ValueInt == \E v \in IntVals : Call("value", valueInt(Self, v, IntBits))
ValueUInt == \E v \in UIntVals : Call("value", valueUInt(Self, v))
ValueDouble == \E x \in DoubleTexts : Call("value", valueDouble(Self, x))
ValueBool == \E v \in BOOLEAN : Call("value", valueBool(Self, v))
ValueString == \E v \in StrVals : Call("value", valueString(Self, v))
ValueRaw == \E v \in RawVals : Call("valueRaw", valueRaw(Self, v))
ValueNull == Call("valueNull", valueNull(Self))
ValueSafeLit == \E v \in RawVals : Call("valueSafe", valueSafeLit(Self, v))
ValueSafe == \E v \in RawVals : Call("valueSafe", valueSafe(Self, v))
ValueOrNull ==
  \E v \in IntVals : Call("valueOrNull", valueOrNull(Self, v, Sentinel, IntBits))
ValueStringOrNull ==
  \E v \in StrVals : Call("valueStringOrNull", valueStringOrNull(Self, v))
ValueStringOrNullC ==
  \E v \in CStrVals : Call("valueStringOrNull", valueStringOrNullC(Self, v))

Next ==
  \/ Clear \/ Take \/ Str \/ Size
  \/ Start \/ End \/ StartArray \/ EndArray \/ Key
  \/ AddLitInt \/ AddLitUInt \/ AddLitDouble \/ AddLitBool \/ AddLitNull
  \/ AddLitString \/ AddLitSafe \/ AddLitSafeLit \/ AddLitRaw
  \/ AddLitStringOrNull \/ AddLitStringOrNullC \/ AddIf \/ AddStringIf
  \/ AddInt \/ AddUInt \/ AddDouble \/ AddBool \/ AddRaw \/ AddString
  \/ AddNull \/ AddOrNull \/ AddStringOrNull
  \/ ValueInt \/ ValueUInt \/ ValueDouble \/ ValueBool \/ ValueString
  \/ ValueRaw \/ ValueNull \/ ValueSafeLit \/ ValueSafe \/ ValueOrNull
  \/ ValueStringOrNull \/ ValueStringOrNullC

Spec == Init /\ [][Next]_vars

-----------------------------------------------------------------------------
(* Properties of the builder under arbitrary public calls (Spec) *)

ClearsComma == {"new", "clear", "take", "start", "startArray", "key"}

SetsComma ==
  {"end", "endArray", "add", "addNull", "addString", "addSafe", "addRaw",
   "addOrNull", "addStringOrNull", "value", "valueNull", "valueRaw",
   "valueSafe", "valueOrNull", "valueStringOrNull"}

\* C5: need_comma is false right after construction, clear, take, start,
\* startArray and key, and true right after end, endArray, every keyed
\* add / addNull / addString / addSafe / addRaw / add...OrNull call and every
\* bare value call, whatever it was before the call.  (addIf and
\* addStringIf are conditional and not among them.)
C5_PendingSeparator ==
  /\ lastOp \in ClearsComma => need_comma = FALSE
  /\ lastOp \in SetsComma => need_comma = TRUE

\* A key() made while a separator was pending.
C5_Witness ==
  /\ lastOp = "key"
  /\ prev.need_comma = TRUE
  /\ need_comma = FALSE

\* C6: 0 <= cursor <= buf.size() in every reachable state, and no call has
\* written a byte at an index >= buf.size(): what each call reserves covers
\* what it writes.
C6_BufferBounds ==
  /\ 0 <= cursor
  /\ cursor <= buf.size
  /\ oob = FALSE

\* A call that had to grow the buffer and wrote past the initial capacity.
C6_Witness ==
  /\ buf.size > InitialSize
  /\ cursor > InitialSize
  /\ Len(prev.str) < InitialSize

\* C7: after every ensure(n) call, cursor + n <= buf.size() and the bytes
\* [0, cursor) are the ones before the call; when ensure changed the size,
\* the new size is at least twice the old one.
C7_Ensure ==
  \A i \in 1..Len(elog) :
    /\ elog[i].cursor + elog[i].len <= elog[i].new
    /\ elog[i].kept
    /\ elog[i].new # elog[i].old => elog[i].new >= 2 * elog[i].old

\* An ensure() call that grew the buffer to more than twice its size
\* (cursor + n + 64 was the larger of the two candidates).
C7_Witness ==
  \E i \in 1..Len(elog) :
    /\ elog[i].new > 2 * elog[i].old
    /\ elog[i].cursor > 0

\* C8: every call other than clear and take leaves cursor >= its previous
\* value and the bytes below the previous cursor unchanged (str() before is
\* a prefix of str() after); clear and take set cursor to 0.
C8_AppendOnly ==
  /\ lastOp \notin {"new", "clear", "take"} =>
       /\ cursor >= Len(prev.str)
       /\ sPrefix(buf, Len(prev.str)) = prev.str
  /\ lastOp \in {"clear", "take"} => cursor = 0

\* A call that appended to a non-empty output.
C8_Witness ==
  /\ lastOp = "end"
  /\ Len(prev.str) > 0
  /\ cursor = Len(prev.str) + 1

\* C18: no call is refused and none reports an error: every call made, in
\* whatever state, has appended its bytes inside the buffer; end() and
\* endArray() have appended their one closing byte and set need_comma
\* whatever the builder held, an empty builder or an open bracket of the
\* other kind included; and in every reachable state end(), endArray() and
\* key() called next append their bytes just the same.  (The methods have
\* no precondition: the actions carry no guard but the bound on the number
\* of calls.)
C18_NoValidation ==
  /\ lastOp = "end" =>
       str(Self) = prev.str \o <<RBRACE>> /\ need_comma = TRUE
  /\ lastOp = "endArray" =>
       str(Self) = prev.str \o <<RBRACKET>> /\ need_comma = TRUE
  /\ lastOp \notin {"new", "clear", "take", "str", "size", "addIf",
                    "addStringIf"} => cursor > Len(prev.str)
  /\ oob = FALSE
  /\ str(end(Self)) = str(Self) \o <<RBRACE>>
  /\ str(endArray(Self)) = str(Self) \o <<RBRACKET>>
  /\ Len(str(key(Self, K))) > cursor
  /\ end(Self).need_comma = TRUE /\ endArray(Self).need_comma = TRUE
  /\ end(Self).oob = FALSE /\ endArray(Self).oob = FALSE

\* end() on a builder in which nothing is open.
C18_Witness ==
  /\ lastOp = "end"
  /\ prev.str = <<>>
  /\ str(Self) = <<RBRACE>>
  /\ need_comma = TRUE

-----------------------------------------------------------------------------
(* Reuse: calls, a reset (clear or take), more calls (SpecReuse).  ref is   *)
(* a newly constructed builder that receives the calls made since the last *)
(* reset.                                                                  *)

ReuseCall(name, nb, nr) ==
  /\ nops < MaxSeq
  /\ Step(name, nb)
  /\ ref' = nr
  /\ UNCHANGED <<resets, taken, caller>>

ReuseClear ==
  /\ nops < MaxSeq
  /\ Step("clear", clear(Self))
  /\ ref' = New
  /\ resets' = "clear"
  /\ UNCHANGED <<taken, caller>>

ReuseTake ==
  /\ nops < MaxSeq
  /\ Step("take", take(Self).b)
  /\ ref' = New
  /\ resets' = "take"
  /\ taken' = take(Self).result
  /\ UNCHANGED caller

NextReuse ==
  \/ ReuseClear
  \/ ReuseTake
  \/ ReuseCall("start", start(Self), start(Ref))
  \/ ReuseCall("end", end(Self), end(Ref))
  \/ ReuseCall("startArray", startArray(Self), startArray(Ref))
  \/ ReuseCall("endArray", endArray(Self), endArray(Ref))
  \/ \E k \in Keys : ReuseCall("key", key(Self, k), key(Ref, k))
  \/ \E v \in IntVals :
      ReuseCall("add", addInt(Self, <<107>>, v, IntBits),
                addInt(Ref, <<107>>, v, IntBits))
  \/ \E v \in StrVals :
      ReuseCall("addString", addLitString(Self, <<107>>, v),
                addLitString(Ref, <<107>>, v))
  \/ \E v \in RawVals :
      ReuseCall("addSafe", addLitSafe(Self, <<107>>, v),
                addLitSafe(Ref, <<107>>, v))
  \/ \E v \in IntVals :
      ReuseCall("value", valueInt(Self, v, IntBits), valueInt(Ref, v, IntBits))
  \/ \E x \in DoubleTexts :
      ReuseCall("value", valueDouble(Self, x), valueDouble(Ref, x))
  \/ \E v \in StrVals :
      ReuseCall("value", valueString(Self, v), valueString(Ref, v))
  \/ \E v \in RawVals : ReuseCall("valueRaw", valueRaw(Self, v), valueRaw(Ref, v))
  \/ ReuseCall("valueNull", valueNull(Self), valueNull(Ref))

SpecReuse == Init /\ [][NextReuse]_vars

\* C9: after calls P, clear(), calls S, str() is the str() of a newly
\* constructed builder that received S alone; clear() itself sets cursor to
\* 0 and need_comma to false and does not reduce buf.size().
C9_ReuseAfterClear ==
  /\ resets = "clear" => str(Self) = str(ref)
  /\ lastOp = "clear" =>
       /\ cursor = 0
       /\ need_comma = FALSE
       /\ buf.size >= prev.size

\* The first output written after a clear(), over longer stale output.
C9_Witness ==
  /\ resets = "clear"
  /\ lastOp \notin {"clear", "take"}
  /\ cursor > 0
  /\ Len(buf.data) > cursor
  /\ prev.str = <<>>

\* C10: take() returns the bytes str() returned right before it and leaves
\* cursor 0, need_comma false and a buffer of 1024 bytes, as after
\* construction; the calls made after it give the output they give on a
\* new builder.
C10_Take ==
  /\ lastOp = "take" =>
       /\ taken = prev.str
       /\ cursor = New.cursor
       /\ need_comma = New.need_comma
       /\ buf = New.buf
       /\ buf.size = 1024
  /\ resets = "take" => str(Self) = str(ref)

\* Output written after a take() that returned a non-empty string.
C10_Witness ==
  /\ resets = "take"
  /\ lastOp # "take"
  /\ cursor > 0
  /\ Len(taken) > 0

-----------------------------------------------------------------------------
(* Escaped strings (SpecEsc): one escaping call, value(string) or          *)
(* addString(key, string), on a new builder or right after startArray() /  *)
(* start(), for every string over EscBytes of at most MaxStrLen bytes.     *)

\* Every control byte, the quote, the backslash and an ordinary byte.
EscBytes == (0..31) \cup {QUOTE, BACKSLASH, 97}

RECURSIVE StringsUpTo(_)
StringsUpTo(n) ==
  IF n = 0 THEN {<<>>}
  ELSE LET shorter == StringsUpTo(n - 1)
       IN  shorter \cup {Append(s, c) : s \in {x \in shorter : Len(x) = n - 1},
                                        c \in EscBytes}

EscStrings == StringsUpTo(MaxStrLen)

NoKey == <<-1>>

EscCall(name, nb, k, s) ==
  /\ caller.phase = "open"
  /\ Step(name, nb)
  /\ caller' = [phase |-> "escaped", key |-> k, arg |-> s]
  /\ UNCHANGED <<ref, resets, taken>>

InitEsc == InitBuilder /\ caller = [phase |-> "open", key |-> NoKey, arg |-> <<>>]

EscOpen(name, nb) ==
  /\ caller.phase = "open"
  /\ nops = 0
  /\ Step(name, nb)
  /\ UNCHANGED <<ref, resets, taken, caller>>

NextEsc ==
  \/ EscOpen("startArray", startArray(Self))
  \/ EscOpen("start", start(Self))
  \/ \E s \in EscStrings : EscCall("value", valueString(Self, s), NoKey, s)
  \/ \E s \in EscStrings :
      EscCall("addString", addString(Self, <<107>>, s), <<107>>, s)
  \/ \E s \in EscStrings :
      EscCall("addString", addLitString(Self, <<107>>, s), <<107>>, s)

SpecEsc == InitEsc /\ [][NextEsc]_vars

\* The quoted text the escaping call appended: what follows the previous
\* output and, in the keyed form, "key": (no separator is pending in SpecEsc).
KeyText(k) == IF k = NoKey THEN <<>> ELSE <<QUOTE>> \o k \o <<QUOTE, COLON>>

QuotedText ==
  SubSeq(str(Self), Len(prev.str) + Len(KeyText(caller.key)) + 1, cursor)

RECURSIVE Flatten(_)
Flatten(ss) == IF ss = <<>> THEN <<>> ELSE Head(ss) \o Flatten(Tail(ss))

HexDigit(d) == IF d < 10 THEN ZERO + d ELSE 97 + (d - 10)

\* The text JSON asks for in place of byte c inside a string: the
\* two-character escapes, \u00XX for the other control bytes, c itself
\* otherwise.
JsonEscapeOf(c) ==
  CASE c = QUOTE     -> <<BACKSLASH, QUOTE>>
    [] c = BACKSLASH -> <<BACKSLASH, BACKSLASH>>
    [] c = BS        -> <<BACKSLASH, 98>>
    [] c = FF        -> <<BACKSLASH, 102>>
    [] c = NL        -> <<BACKSLASH, 110>>
    [] c = CR        -> <<BACKSLASH, 114>>
    [] c = TAB       -> <<BACKSLASH, 116>>
    [] OTHER         ->
         IF c < SPACE
           THEN <<BACKSLASH, 117, ZERO, ZERO, HexDigit(c \div 16), HexDigit(c % 16)>>
           ELSE <<c>>

\* C2: the escaping call appends a quote, then for every input byte in
\* order its two-character escape (quote, backslash, \b \f \n \r \t), its
\* six-character escape (any other control byte below 0x20) or the byte
\* itself, then a quote; no input byte goes without output.
C2_EscapedEmission ==
  caller.phase = "escaped" =>
    /\ str(Self) = prev.str \o KeyText(caller.key) \o QuotedText
    /\ QuotedText = <<QUOTE>>
                      \o Flatten([i \in 1..Len(caller.arg) |-> JsonEscapeOf(caller.arg[i])])
                      \o <<QUOTE>>

HexValue(c) ==
  IF c >= ZERO /\ c <= ZERO + 9 THEN c - ZERO
  ELSE IF c >= 97 /\ c <= 102 THEN c - 97 + 10
  ELSE IF c >= 65 /\ c <= 70 THEN c - 65 + 10
  ELSE -1

\* Standard JSON string unescaping of the text inside the quotes, from
\* element i on; <<-1>> is appended where the text is no JSON string.
RECURSIVE JsonUnescape(_, _)
JsonUnescape(x, i) ==
  IF i > Len(x) THEN <<>>
  ELSE IF x[i] = BACKSLASH
    THEN IF i + 1 > Len(x) THEN <<-1>>
         ELSE LET e == x[i + 1]
              IN  CASE e = QUOTE     -> <<QUOTE>> \o JsonUnescape(x, i + 2)
                    [] e = BACKSLASH -> <<BACKSLASH>> \o JsonUnescape(x, i + 2)
                    [] e = 47        -> <<47>> \o JsonUnescape(x, i + 2)
                    [] e = 98        -> <<BS>> \o JsonUnescape(x, i + 2)
                    [] e = 102       -> <<FF>> \o JsonUnescape(x, i + 2)
                    [] e = 110       -> <<NL>> \o JsonUnescape(x, i + 2)
                    [] e = 114       -> <<CR>> \o JsonUnescape(x, i + 2)
                    [] e = 116       -> <<TAB>> \o JsonUnescape(x, i + 2)
                    [] e = 117 /\ i + 5 <= Len(x)
                         /\ \A j \in 2..5 : HexValue(x[i + j]) >= 0
                                     -> <<((HexValue(x[i + 2]) * 16 + HexValue(x[i + 3])) * 16
                                           + HexValue(x[i + 4])) * 16 + HexValue(x[i + 5])>>
                                          \o JsonUnescape(x, i + 6)
                    [] OTHER         -> <<-1>>
    ELSE IF x[i] = QUOTE \/ x[i] < SPACE THEN <<-1>>
    ELSE <<x[i]>> \o JsonUnescape(x, i + 1)

JsonDecodeString(q) ==
  IF Len(q) >= 2 /\ q[1] = QUOTE /\ q[Len(q)] = QUOTE
    THEN JsonUnescape(SubSeq(q, 2, Len(q) - 1), 1)
    ELSE <<-1>>

\* C3: standard JSON string unescaping of the quoted text that value(s) or
\* addString(key, s) appends yields exactly s.
C3_RoundTrip ==
  caller.phase = "escaped" => JsonDecodeString(QuotedText) = caller.arg

-----------------------------------------------------------------------------
(* One array or object (SpecSeq): after an optional first call (a key, so  *)
(* that output precedes, or a value, so that a separator is pending), the  *)
(* caller opens an array or an object, adds up to MaxElems elements or     *)
(* key/value pairs, and closes it.  The caller keeps the text it expects:  *)
(* base, the output up to and including the opening bracket, and elems,    *)
(* the encoding of every element, which is what the encoding primitive     *)
(* writes for the value into a new builder.                                *)

InitSeq ==
  InitBuilder /\ caller = [phase |-> "pre", kind |-> "none", base |-> <<>>,
                           elems |-> <<>>]

SeqPre(name, nb) ==
  /\ caller.phase = "pre"
  /\ nops = 0
  /\ Step(name, nb)
  /\ UNCHANGED <<ref, resets, taken, caller>>

SeqOpen(name, nb, kind, bracket) ==
  /\ caller.phase = "pre"
  /\ Step(name, nb)
  /\ caller' = [phase |-> "open", kind |-> kind,
                base |-> str(Self) \o (IF need_comma THEN <<COMMA>> ELSE <<>>)
                           \o <<bracket>>,
                elems |-> <<>>]
  /\ UNCHANGED <<ref, resets, taken>>

SeqElem(name, nb, kind, enc) ==
  /\ caller.phase = "open"
  /\ caller.kind = kind
  /\ Len(caller.elems) < MaxElems
  /\ Step(name, nb)
  /\ caller' = [caller EXCEPT !.elems = Append(@, enc)]
  /\ UNCHANGED <<ref, resets, taken>>

SeqClose(name, nb, kind) ==
  /\ caller.phase = "open"
  /\ caller.kind = kind
  /\ Step(name, nb)
  /\ caller' = [caller EXCEPT !.phase = "closed"]
  /\ UNCHANGED <<ref, resets, taken>>

\* The encodings of the scalar values.
EncInt(v) == str(writeInt(New, v, IntBits))
EncString(s) == str(escapeString(New, s))
EncNull == str(writeNull(New))
EncBool(v) == str(writeBool(New, v))
EncDouble(x) == str(writeDouble(New, x))

SeqStrVals == {<<>>, <<97, QUOTE>>, <<COMMA>>}    \* "", a" and ,

NextSeq ==
  \/ SeqPre("key", key(Self, <<107>>))
  \/ SeqPre("valueNull", valueNull(Self))
  \/ SeqOpen("startArray", startArray(Self), "array", LBRACKET)
  \/ SeqOpen("start", start(Self), "object", LBRACE)
  \/ \E v \in IntVals :
      SeqElem("value", valueInt(Self, v, IntBits), "array", EncInt(v))
  \/ \E s \in SeqStrVals :
      SeqElem("value", valueString(Self, s), "array", EncString(s))
  \/ SeqElem("valueNull", valueNull(Self), "array", EncNull)
  \/ \E v \in BOOLEAN : SeqElem("value", valueBool(Self, v), "array", EncBool(v))
  \/ \E x \in DoubleTexts :
      SeqElem("value", valueDouble(Self, x), "array", EncDouble(x))
  \/ \E k \in Keys, v \in IntVals :
      SeqElem("add", addInt(Self, k, v, IntBits), "object",
              KeyText(k) \o EncInt(v))
  \/ \E k \in Keys, v \in IntVals :
      SeqElem("add", addLitInt(Self, k, v, IntBits), "object",
              KeyText(k) \o EncInt(v))
  \/ \E k \in Keys, s \in SeqStrVals :
      SeqElem("addString", addString(Self, k, s), "object",
              KeyText(k) \o EncString(s))
  \/ \E k \in Keys, v \in BOOLEAN :
      SeqElem("add", addLitBool(Self, k, v), "object", KeyText(k) \o EncBool(v))
  \/ \E k \in Keys : SeqElem("addNull", addNull(Self, k), "object",
                            KeyText(k) \o EncNull)
  \/ SeqClose("endArray", endArray(Self), "array")
  \/ SeqClose("end", end(Self), "object")

SpecSeq == InitSeq /\ [][NextSeq]_vars

\* The texts of ss with one separator between neighbours.
RECURSIVE Join(_)
Join(ss) ==
  IF ss = <<>> THEN <<>>
  ELSE IF Len(ss) = 1 THEN ss[1]
  ELSE ss[1] \o <<COMMA>> \o Join(Tail(ss))

RECURSIVE SumLen(_)
SumLen(ss) == IF ss = <<>> THEN 0 ELSE Len(Head(ss)) + SumLen(Tail(ss))

ClosingOf(kind) == IF kind = "array" THEN RBRACKET ELSE RBRACE

\* The bytes that are neither the text before the elements, nor an element,
\* nor the closing bracket: the separators.
Separators ==
  cursor - Len(caller.base) - SumLen(caller.elems)
    - (IF caller.phase = "closed" THEN 1 ELSE 0)

\* C1: startArray(), N bare values, endArray() append '[', the N encoded
\* elements with one comma between neighbours, and ']': N-1 commas for
\* N >= 1, none for N = 0, no comma after '[' or before ']'; the same for
\* start(), N keyed adds, end() with '{' and '}'.
C1_CommaPlacement ==
  /\ caller.phase = "open" =>
       str(Self) = caller.base \o Join(caller.elems)
  /\ caller.phase = "closed" =>
       /\ str(Self) = caller.base \o Join(caller.elems)
                        \o <<ClosingOf(caller.kind)>>
       /\ Separators = IF caller.elems = <<>> THEN 0
                       ELSE Len(caller.elems) - 1

\* A closed array of three elements written after earlier output.
C1_Witness ==
  /\ caller.phase = "closed"
  /\ caller.kind = "array"
  /\ Len(caller.elems) = 3
  /\ Separators = 2
  /\ Len(caller.base) > 1

-----------------------------------------------------------------------------
(* A JSON recogniser (RFC 8259) that reads a text byte by byte.  Its state  *)
(* is what it expects next (st), the brackets open (open), for a literal    *)
(* the bytes still to come (lit), for a string whether it is a key (key)    *)
(* and for \u the hex digits still to come (hex); st = "bad" once the text  *)
(* is no prefix of a JSON text.                                            *)

JsonStart ==
  [st |-> "value", open |-> <<>>, lit |-> <<>>, key |-> FALSE, hex |-> 0]

IsDigit(c) == c >= ZERO /\ c <= ZERO + 9
IsWs(c) == c \in {SPACE, TAB, NL, CR}
Bad(j) == [j EXCEPT !.st = "bad"]
Pop(j) == [j EXCEPT !.open = SubSeq(@, 1, Len(@) - 1), !.st = "after"]
Top(j) == IF j.open = <<>> THEN 0 ELSE j.open[Len(j.open)]

JsonValueStart(j, c) ==
  CASE c = QUOTE    -> [j EXCEPT !.st = "string", !.key = FALSE]
    [] c = LBRACE   -> [j EXCEPT !.st = "member1", !.open = Append(@, LBRACE)]
    [] c = LBRACKET -> [j EXCEPT !.st = "first", !.open = Append(@, LBRACKET)]
    [] c = MINUS    -> [j EXCEPT !.st = "minus"]
    [] c = ZERO     -> [j EXCEPT !.st = "zero"]
    [] IsDigit(c) /\ c # ZERO -> [j EXCEPT !.st = "int"]
    [] c = 116      -> [j EXCEPT !.st = "lit", !.lit = <<114, 117, 101>>]
    [] c = 102      -> [j EXCEPT !.st = "lit", !.lit = <<97, 108, 115, 101>>]
    [] c = 110      -> [j EXCEPT !.st = "lit", !.lit = <<117, 108, 108>>]
    [] OTHER        -> Bad(j)

JsonAfter(j, c) ==
  CASE IsWs(c) -> [j EXCEPT !.st = "after"]
    [] j.open = <<>> -> Bad(j)
    [] c = COMMA ->
         [j EXCEPT !.st = IF Top(j) = LBRACE THEN "member" ELSE "value"]
    [] c = RBRACE /\ Top(j) = LBRACE -> Pop(j)
    [] c = RBRACKET /\ Top(j) = LBRACKET -> Pop(j)
    [] OTHER -> Bad(j)

JsonStep(j, c) ==
  CASE j.st = "bad" -> j
    [] j.st = "value" -> IF IsWs(c) THEN j ELSE JsonValueStart(j, c)
    [] j.st = "first" ->
         IF IsWs(c) THEN j
         ELSE IF c = RBRACKET THEN Pop(j) ELSE JsonValueStart(j, c)
    [] j.st = "member1" ->
         IF IsWs(c) THEN j
         ELSE IF c = RBRACE THEN Pop(j)
         ELSE IF c = QUOTE THEN [j EXCEPT !.st = "string", !.key = TRUE]
         ELSE Bad(j)
    [] j.st = "member" ->
         IF IsWs(c) THEN j
         ELSE IF c = QUOTE THEN [j EXCEPT !.st = "string", !.key = TRUE]
         ELSE Bad(j)
    [] j.st = "colon" ->
         IF IsWs(c) THEN j
         ELSE IF c = COLON THEN [j EXCEPT !.st = "value"] ELSE Bad(j)
    [] j.st = "after" -> JsonAfter(j, c)
    [] j.st = "string" ->
         IF c = QUOTE THEN [j EXCEPT !.st = IF j.key THEN "colon" ELSE "after"]
         ELSE IF c = BACKSLASH THEN [j EXCEPT !.st = "escape"]
         ELSE IF c < SPACE THEN Bad(j) ELSE j
    [] j.st = "escape" ->
         IF c \in {QUOTE, BACKSLASH, 47, 98, 102, 110, 114, 116}
           THEN [j EXCEPT !.st = "string"]
         ELSE IF c = 117 THEN [j EXCEPT !.st = "hex", !.hex = 4]
         ELSE Bad(j)
    [] j.st = "hex" ->
         IF HexValue(c) < 0 THEN Bad(j)
         ELSE IF j.hex = 1 THEN [j EXCEPT !.st = "string", !.hex = 0]
         ELSE [j EXCEPT !.hex = @ - 1]
    [] j.st = "minus" ->
         IF c = ZERO THEN [j EXCEPT !.st = "zero"]
         ELSE IF IsDigit(c) THEN [j EXCEPT !.st = "int"] ELSE Bad(j)
    [] j.st = "zero" ->
         IF c = 46 THEN [j EXCEPT !.st = "dot"]
         ELSE IF c \in {101, 69} THEN [j EXCEPT !.st = "e"]
         ELSE JsonAfter(j, c)
    [] j.st = "int" ->
         IF IsDigit(c) THEN j
         ELSE IF c = 46 THEN [j EXCEPT !.st = "dot"]
         ELSE IF c \in {101, 69} THEN [j EXCEPT !.st = "e"]
         ELSE JsonAfter(j, c)
    [] j.st = "dot" -> IF IsDigit(c) THEN [j EXCEPT !.st = "frac"] ELSE Bad(j)
    [] j.st = "frac" ->
         IF IsDigit(c) THEN j
         ELSE IF c \in {101, 69} THEN [j EXCEPT !.st = "e"]
         ELSE JsonAfter(j, c)
    [] j.st = "e" ->
         IF c \in {43, MINUS} THEN [j EXCEPT !.st = "esign"]
         ELSE IF IsDigit(c) THEN [j EXCEPT !.st = "exp"] ELSE Bad(j)
    [] j.st = "esign" -> IF IsDigit(c) THEN [j EXCEPT !.st = "exp"] ELSE Bad(j)
    [] j.st = "exp" -> IF IsDigit(c) THEN j ELSE JsonAfter(j, c)
    [] j.st = "lit" ->
         IF c # Head(j.lit) THEN Bad(j)
         ELSE IF Len(j.lit) = 1 THEN [j EXCEPT !.st = "after", !.lit = <<>>]
         ELSE [j EXCEPT !.lit = Tail(@)]

RECURSIVE JsonScan(_, _, _)
JsonScan(j, x, i) ==
  IF i > Len(x) THEN j ELSE JsonScan(JsonStep(j, x[i]), x, i + 1)

JsonRead(x) == JsonScan(JsonStart, x, 1)

IsJsonPrefix(x) == JsonRead(x).st # "bad"

IsJsonText(x) ==
  /\ JsonRead(x).open = <<>>
  /\ JsonRead(x).st \in {"after", "zero", "int", "frac", "exp"}

-----------------------------------------------------------------------------
(* A disciplined caller (SpecWF): it keeps the stack of what it has opened  *)
(* and makes only the calls that are well formed where it stands: at the    *)
(* top an object or an array is opened, once; inside an array bare values   *)
(* and nested opens; inside an object keyed adds and key(), and after       *)
(* key() exactly one bare value or nested open; end / endArray only for    *)
(* the innermost open object / array.  No raw or pre-escaped emission; the  *)
(* keys are plain identifiers.                                             *)

InitWF ==
  InitBuilder /\ caller = [phase |-> "wf", stack |-> <<>>, pending |-> FALSE,
                           done |-> FALSE]

WfCtx ==
  IF caller.pending THEN "afterkey"
  ELSE IF caller.stack # <<>> THEN caller.stack[Len(caller.stack)]
  ELSE IF caller.done THEN "done" ELSE "top"

WfStep(name, nb) ==
  /\ caller.phase = "wf"
  /\ nops < MaxCalls
  /\ Step(name, nb)
  /\ UNCHANGED <<ref, resets, taken>>

WfOpen(name, nb, kind) ==
  /\ WfCtx \in {"top", "arr", "afterkey"}
  /\ Len(caller.stack) < MaxDepth
  /\ WfStep(name, nb)
  /\ caller' = [caller EXCEPT !.stack = Append(@, kind), !.pending = FALSE]

WfValue(name, nb) ==
  /\ WfCtx \in {"arr", "afterkey"}
  /\ WfStep(name, nb)
  /\ caller' = [caller EXCEPT !.pending = FALSE]

WfAdd(name, nb) ==
  /\ WfCtx = "obj"
  /\ WfStep(name, nb)
  /\ UNCHANGED caller

WfClose(name, nb, kind) ==
  /\ WfCtx = kind
  /\ WfStep(name, nb)
  /\ caller' = [caller EXCEPT !.stack = SubSeq(@, 1, Len(@) - 1),
                              !.done = (Len(caller.stack) = 1)]

WfStrVals == {<<97, QUOTE>>, <<1, NL>>}      \* a" and 0x01 newline

WfKey ==
  /\ WfCtx = "obj"
  /\ WfStep("key", key(Self, <<107>>))
  /\ caller' = [caller EXCEPT !.pending = TRUE]

NextWF ==
  \/ WfOpen("start", start(Self), "obj")
  \/ WfOpen("startArray", startArray(Self), "arr")
  \/ WfClose("end", end(Self), "obj")
  \/ WfClose("endArray", endArray(Self), "arr")
  \/ WfKey
  \/ WfValue("value", valueInt(Self, -7, IntBits))
  \/ WfValue("value", valueUInt(Self, 15))
  \/ WfValue("value", valueBool(Self, FALSE))
  \/ WfValue("valueNull", valueNull(Self))
  \/ \E s \in WfStrVals : WfValue("value", valueString(Self, s))
  \/ \E v \in Doubles : \E x \in Snprintf6g(v) :
      WfValue("value", valueDouble(Self, x))
  \/ WfAdd("add", addInt(Self, <<107>>, 0, IntBits))
  \/ WfAdd("add", addLitBool(Self, <<107>>, TRUE))
  \/ WfAdd("addNull", addNull(Self, <<107>>))
  \/ \E s \in WfStrVals : WfAdd("addString", addLitString(Self, <<107>>, s))
  \/ \E v \in FiniteDoubles : \E x \in Snprintf6g(v) :
      WfAdd("add", addDouble(Self, <<107>>, x))

SpecWF == InitWF /\ [][NextWF]_vars

\* The brackets the caller has open, as the recogniser keeps them.
OpenBrackets ==
  [i \in 1..Len(caller.stack) |->
     IF caller.stack[i] = "obj" THEN LBRACE ELSE LBRACKET]

\* C4: under a disciplined caller the bytes [0, cursor) are, after every
\* call, a prefix of a JSON text with exactly the caller's brackets open,
\* and one complete JSON value as soon as every open has been closed, at
\* every nesting depth up to MaxDepth.
C4_ValidJson ==
  /\ IsJsonPrefix(str(Self))
  /\ JsonRead(str(Self)).open = OpenBrackets
  /\ caller.done => IsJsonText(str(Self))

-----------------------------------------------------------------------------
(* Two builders side by side (SpecForms).  Every step makes one public     *)
(* call on the builder and gives the reference builder ref the other form  *)
(* of the same request: key() followed by the bare call for a keyed call,  *)
(* the runtime-key overload for a literal-key overload (the call           *)
(* add<N>(k, v)), the unconditional call or no call at all for addIf /     *)
(* addStringIf, no call for str() and size(), and the same call            *)
(* otherwise.  The caller records the arguments of the call.               *)

MaxForms == 2    \* public calls per behaviour of SpecForms

InitForms ==
  InitBuilder /\ caller = [phase |-> "forms", key |-> NoKey, arg |-> <<>>,
                           cond |-> TRUE]

FormsCall(name, nb, nr, k, v, c) ==
  /\ caller.phase = "forms"
  /\ nops < MaxForms
  /\ Step(name, nb)
  /\ ref' = nr
  /\ caller' = [phase |-> "forms", key |-> k, arg |-> v, cond |-> c]
  /\ UNCHANGED <<resets, taken>>

FormsStr ==
  /\ caller.phase = "forms"
  /\ nops < MaxForms
  /\ Step("str", Self)
  /\ taken' = str(Self)
  /\ caller' = [phase |-> "forms", key |-> NoKey, arg |-> <<>>, cond |-> TRUE]
  /\ UNCHANGED <<ref, resets>>

FormKeys == {<<>>, <<107, QUOTE>>}            \* "" and k"
VerbatimVals == {<<QUOTE, BACKSLASH, 1>>, Long}   \* "\ 0x01, the long payload

NextForms ==
  \/ FormsStr
  \/ FormsCall("size", Self, Ref, NoKey, <<>>, TRUE)
  \/ FormsCall("start", start(Self), start(Ref), NoKey, <<>>, TRUE)
  \/ FormsCall("startArray", startArray(Self), startArray(Ref), NoKey, <<>>,
               TRUE)
  \/ FormsCall("end", end(Self), end(Ref), NoKey, <<>>, TRUE)
  \/ FormsCall("endArray", endArray(Self), endArray(Ref), NoKey, <<>>, TRUE)
  \/ \E k \in Keys \cup FormKeys :
      FormsCall("key", key(Self, k), key(Ref, k), k, <<>>, TRUE)
  \* addIf, addStringIf
  \/ \E c \in BOOLEAN, v \in IntVals :
      FormsCall("addIf", addIf(Self, c, K, v, IntBits),
                IF c THEN addInt(Ref, K, v, IntBits) ELSE Ref, K, v, c)
  \/ \E c \in BOOLEAN, s \in StrVals :
      FormsCall("addStringIf", addStringIf(Self, c, K, s),
                IF c THEN addString(Ref, K, s) ELSE Ref, K, s, c)
  \* the OrNull calls
  \/ \E v \in IntVals :
      FormsCall("addOrNull", addOrNull(Self, K, v, Sentinel, IntBits),
                addOrNull(Ref, K, v, Sentinel, IntBits), K, v, TRUE)
  \/ \E s \in StrVals :
      FormsCall("addStringOrNull", addStringOrNull(Self, K, s),
                addStringOrNull(Ref, K, s), K, s, TRUE)
  \/ \E s \in StrVals :
      FormsCall("addStringOrNull<N>", addLitStringOrNull(Self, K, s),
                addStringOrNull(Ref, K, s), K, s, TRUE)
  \/ \E s \in CStrVals \cup {<<>>} :
      FormsCall("addStringOrNull(char*)", addLitStringOrNullC(Self, K, s),
                addLitStringOrNullC(Ref, K, s), K, s, TRUE)
  \/ \E v \in IntVals :
      FormsCall("valueOrNull", valueOrNull(Self, v, Sentinel, IntBits),
                valueOrNull(Ref, v, Sentinel, IntBits), NoKey, v, TRUE)
  \/ \E s \in StrVals :
      FormsCall("valueStringOrNull", valueStringOrNull(Self, s),
                valueStringOrNull(Ref, s), NoKey, s, TRUE)
  \/ \E s \in CStrVals \cup {<<>>} :
      FormsCall("valueStringOrNull(char*)", valueStringOrNullC(Self, s),
                valueStringOrNullC(Ref, s), NoKey, s, TRUE)
  \* keyed calls against key() and the bare call
  \/ \E k \in Keys, v \in IntVals :
      FormsCall("add", addInt(Self, k, v, IntBits),
                valueInt(key(Ref, k), v, IntBits), k, v, TRUE)
  \/ \E v \in BOOLEAN :
      FormsCall("add", addBool(Self, K, v), valueBool(key(Ref, K), v), K, v,
                TRUE)
  \/ \E k \in Keys :
      FormsCall("addNull", addNull(Self, k), valueNull(key(Ref, k)), k, <<>>,
                TRUE)
  \/ \E s \in StrVals :
      FormsCall("addString", addString(Self, K, s),
                valueString(key(Ref, K), s), K, s, TRUE)
  \/ \E v \in VerbatimVals :
      FormsCall("addRaw", addRaw(Self, K, v), valueRaw(key(Ref, K), v), K, v,
                TRUE)
  \* literal-key overloads against the runtime-key overloads
  \/ \E k \in Keys, v \in IntVals :
      FormsCall("add<N>", addLitInt(Self, k, v, IntBits),
                addInt(Ref, k, v, IntBits), k, v, TRUE)
  \/ \E v \in UIntVals :
      FormsCall("add<N>", addLitUInt(Self, K, v), addUInt(Ref, K, v), K, v,
                TRUE)
  \/ \E x \in DoubleTexts :
      FormsCall("add<N>", addLitDouble(Self, K, x), addDouble(Ref, K, x), K, x,
                TRUE)
  \/ \E v \in BOOLEAN :
      FormsCall("add<N>", addLitBool(Self, K, v), addBool(Ref, K, v), K, v,
                TRUE)
  \/ \E k \in Keys :
      FormsCall("addNull<N>", addLitNull(Self, k), addNull(Ref, k), k, <<>>,
                TRUE)
  \/ \E s \in StrVals :
      FormsCall("addString<N>", addLitString(Self, K, s), addString(Ref, K, s),
                K, s, TRUE)
  \/ \E v \in VerbatimVals :
      FormsCall("addRaw<N>", addLitRaw(Self, K, v), addRaw(Ref, K, v), K, v,
                TRUE)
  \* pre-escaped and raw values
  \/ \E v \in VerbatimVals :
      FormsCall("addSafe", addLitSafe(Self, K, v), addLitSafe(Ref, K, v), K, v,
                TRUE)
  \/ FormsCall("addSafe", addLitSafeLit(Self, K, <<QUOTE>>),
               addLitSafeLit(Ref, K, <<QUOTE>>), K, <<QUOTE>>, TRUE)
  \/ \E v \in VerbatimVals :
      FormsCall("valueSafe", valueSafe(Self, v), valueSafe(Ref, v), NoKey, v,
                TRUE)
  \/ FormsCall("valueSafe", valueSafeLit(Self, <<QUOTE>>),
               valueSafeLit(Ref, <<QUOTE>>), NoKey, <<QUOTE>>, TRUE)
  \/ \E v \in VerbatimVals :
      FormsCall("valueRaw", valueRaw(Self, v), valueRaw(Ref, v), NoKey, v,
                TRUE)

SpecForms == InitForms /\ [][NextForms]_vars

\* The builder and the reference builder hold the same output, cursor and
\* need_comma (their buffer sizes may differ).
SameAsRef ==
  /\ str(Self) = str(Ref)
  /\ cursor = ref.cursor
  /\ need_comma = ref.need_comma

\* The separator a call writes first when one was pending before it.
Sep == IF prev.need_comma THEN <<COMMA>> ELSE <<>>

\* C11: str() returns the bytes [0, cursor) and size() their number, and
\* neither changes cursor, need_comma, the size of the buffer or its
\* contents; the output of a sequence of calls is the same with str() and
\* size() calls interleaved (the builder) as without them (ref).
C11_StrSizeFrame ==
  [][/\ lastOp' \in {"str", "size"} =>
          /\ buf' = buf
          /\ cursor' = cursor
          /\ need_comma' = need_comma
          /\ size(Self) = Len(sPrefix(buf, cursor))
     /\ lastOp' = "str" => taken' = sPrefix(buf, cursor)
     /\ SameAsRef']_vars

\* str() on a builder that holds output and a pending separator.
C11_Witness ==
  /\ lastOp = "str"
  /\ cursor > 0
  /\ need_comma = TRUE
  /\ taken = str(Self)
  /\ ref.cursor = cursor

\* C12: addIf(false, k, v) and addStringIf(false, k, v) change neither
\* cursor, need_comma, the size of the buffer nor its contents, and a
\* sequence with such a call gives the output of the sequence without it
\* (ref); with the condition true the output, cursor and need_comma are
\* those add(k, v) / addString(k, v) give (ref).
C12_AddIf ==
  [][/\ (lastOp' \in {"addIf", "addStringIf"} /\ ~caller'.cond) =>
          /\ buf' = buf
          /\ cursor' = cursor
          /\ need_comma' = need_comma
     /\ (lastOp' \in {"addIf", "addStringIf"} /\ caller'.cond) =>
          /\ cursor' > cursor
          /\ need_comma' = TRUE
     /\ lastOp' \in {"addIf", "addStringIf"} => SameAsRef']_vars

\* addIf(false, ...) on a builder that holds output and a pending separator.
C12_Witness ==
  /\ lastOp = "addIf"
  /\ caller.cond = FALSE
  /\ cursor > 0
  /\ need_comma = TRUE
  /\ str(Self) = prev.str

OrNullOps ==
  {"addOrNull", "addStringOrNull", "addStringOrNull<N>",
   "addStringOrNull(char*)", "valueOrNull", "valueStringOrNull",
   "valueStringOrNull(char*)"}

\* The argument of the last OrNull call is the sentinel, the empty string or
\* the null pointer.
IsNullArg ==
  IF lastOp \in {"addOrNull", "valueOrNull"} THEN caller.arg = Sentinel
  ELSE caller.arg \in {<<>>, NULLPTR}

\* The text add / addString / value write for the argument of the last call.
NormalEncoding ==
  IF lastOp \in {"addOrNull", "valueOrNull"} THEN EncInt(caller.arg)
  ELSE EncString(caller.arg)

\* C13: an OrNull call appends the separator if one was pending, the key in
\* the keyed forms, and then null when the value is the sentinel (the empty
\* string, the null pointer) and the normal encoding of the value
\* otherwise; need_comma is true afterwards.
C13_OrNull ==
  lastOp \in OrNullOps =>
    /\ str(Self) = prev.str \o Sep \o KeyText(caller.key)
                     \o (IF IsNullArg THEN StrNull ELSE NormalEncoding)
    /\ need_comma = TRUE

\* addOrNull given the sentinel while a separator was pending.
C13_Witness ==
  /\ lastOp = "addOrNull"
  /\ caller.arg = Sentinel
  /\ prev.need_comma = TRUE
  /\ SubSeq(str(Self), cursor - 3, cursor) = StrNull

\* C15: a keyed call add(k, v), addNull(k), addString(k, v), addRaw(k, v)
\* leaves the output, cursor and need_comma that key(k) followed by the
\* bare call value(v), valueNull(), value(string), valueRaw(v) leaves (ref),
\* whatever the builder held before.
C15_KeyedIsKeyThenBare ==
  lastOp \in {"add", "addNull", "addString", "addRaw"} => SameAsRef

\* A keyed add made while a separator was pending.
C15_Witness ==
  /\ lastOp = "add"
  /\ prev.need_comma = TRUE
  /\ caller.key = K
  /\ cursor > Len(prev.str) + 4

\* C16: key(name) appends ',' iff a separator was pending, then '"', the
\* bytes of name as they are, '"' and ':', and leaves need_comma false: a
\* bare value, start() or startArray() called next appends its text right
\* after the ':'.
C16_Key ==
  lastOp = "key" =>
    /\ str(Self) = prev.str \o Sep \o <<QUOTE>> \o caller.key
                     \o <<QUOTE, COLON>>
    /\ need_comma = FALSE
    /\ str(valueNull(Self)) = str(Self) \o StrNull
    /\ str(start(Self)) = str(Self) \o <<LBRACE>>
    /\ str(startArray(Self)) = str(Self) \o <<LBRACKET>>

\* key() with a name that holds a double quote, made while a separator was
\* pending.
C16_Witness ==
  /\ lastOp = "key"
  /\ caller.key = <<107, QUOTE>>
  /\ prev.need_comma = TRUE
  /\ need_comma = FALSE

\* C17 as stated: after addSafe, addRaw, valueSafe and valueRaw the bytes
\* that follow the separator and the key are exactly the bytes of the value.
C17_VerbatimOnly ==
  lastOp \in {"addSafe", "addRaw", "addRaw<N>", "valueSafe", "valueRaw"} =>
    str(Self) = prev.str \o Sep \o KeyText(caller.key) \o caller.arg

\* C17 amended: after addRaw and valueRaw the bytes that follow the
\* separator and the key are exactly the bytes of the value; after addSafe
\* and valueSafe they are '"', the bytes of the value as they are, and '"'.
C17_VerbatimQuoted ==
  /\ lastOp \in {"addRaw", "addRaw<N>", "valueRaw"} =>
       str(Self) = prev.str \o Sep \o KeyText(caller.key) \o caller.arg
  /\ lastOp \in {"addSafe", "valueSafe"} =>
       str(Self) = prev.str \o Sep \o KeyText(caller.key) \o <<QUOTE>>
                     \o caller.arg \o <<QUOTE>>

\* addSafe with a value holding '"', '\' and a control byte.
C17_Witness ==
  /\ lastOp = "addSafe"
  /\ caller.arg = <<QUOTE, BACKSLASH, 1>>
  /\ prev.need_comma = TRUE

\* C20: the literal-key overload of add, addNull, addString, addRaw and
\* addStringOrNull leaves the output, cursor and need_comma that the
\* runtime-key overload of the same call leaves (ref); only the sizes of the
\* buffers may differ.
C20_LiteralIsRuntime ==
  lastOp \in {"add<N>", "addNull<N>", "addString<N>", "addRaw<N>",
              "addStringOrNull<N>"} => SameAsRef

\* A literal-key call after which the two buffers have different sizes.
C20_Witness ==
  /\ lastOp \in {"add<N>", "addString<N>", "addRaw<N>"}
  /\ buf.size # ref.buf.size
  /\ str(Self) = str(Ref)

-----------------------------------------------------------------------------
(* One integer call with any value of the type (SpecInt): the builder is   *)
(* new, or holds an open array, or holds a value and a pending separator,  *)
(* and receives one call that writes an integer of IntBits bits.           *)

SignedInts == (-Pow2(IntBits - 1)) .. (Pow2(IntBits - 1) - 1)
UnsignedInts == 0 .. (Pow2(IntBits) - 1)

InitInt ==
  InitBuilder /\ caller = [phase |-> "open", key |-> NoKey, arg |-> 0]

IntOpen(name, nb) ==
  /\ caller.phase = "open"
  /\ nops = 0
  /\ Step(name, nb)
  /\ UNCHANGED <<ref, resets, taken, caller>>

IntCall(name, nb, k, v) ==
  /\ caller.phase = "open"
  /\ Step(name, nb)
  /\ caller' = [phase |-> "written", key |-> k, arg |-> v]
  /\ UNCHANGED <<ref, resets, taken>>

NextInt ==
  \/ IntOpen("startArray", startArray(Self))
  \/ IntOpen("valueNull", valueNull(Self))
  \/ \E v \in SignedInts :
      IntCall("value", valueInt(Self, v, IntBits), NoKey, v)
  \/ \E v \in UnsignedInts : IntCall("value", valueUInt(Self, v), NoKey, v)
  \/ \E v \in SignedInts : IntCall("add", addInt(Self, K, v, IntBits), K, v)
  \/ \E v \in UnsignedInts : IntCall("add", addLitUInt(Self, K, v), K, v)

SpecInt == InitInt /\ [][NextInt]_vars

\* The number a sequence of decimal digits denotes.
RECURSIVE DecValue(_)
DecValue(ds) ==
  IF ds = <<>> THEN 0
  ELSE 10 * DecValue(SubSeq(ds, 1, Len(ds) - 1)) + (ds[Len(ds)] - ZERO)

\* txt is the canonical decimal text of v: an optional '-', present exactly
\* when v is negative, then one or more digits, the first of them not '0'
\* unless it is the only one, denoting the magnitude of v.
IsCanonicalDecimal(txt, v) ==
  LET neg == txt # <<>> /\ txt[1] = MINUS
      ds  == IF neg THEN Tail(txt) ELSE txt
  IN  /\ ds # <<>>
      /\ \A i \in 1..Len(ds) : IsDigit(ds[i])
      /\ Len(ds) > 1 => ds[1] # ZERO
      /\ neg <=> v < 0
      /\ DecValue(ds) = (IF v < 0 THEN -v ELSE v)

\* What the integer call wrote after the separator and the key.
IntText ==
  SubSeq(str(Self), Len(prev.str \o Sep \o KeyText(caller.key)) + 1, cursor)

\* C14: for every value of the signed and of the unsigned type of IntBits
\* bits the integer call appends, after the separator and the key, exactly
\* the canonical decimal text of the value: 0 for zero, and for the minimum
\* signed value '-' and the digits of 2^(IntBits-1).
C14_IntegerText ==
  caller.phase = "written" =>
    /\ SubSeq(str(Self), 1, cursor - Len(IntText))
         = prev.str \o Sep \o KeyText(caller.key)
    /\ IsCanonicalDecimal(IntText, caller.arg)
    /\ caller.arg = 0 => IntText = <<ZERO>>
    /\ caller.arg = -Pow2(IntBits - 1) =>
         DecValue(Tail(IntText)) = Pow2(IntBits - 1)

\* The minimum value of the signed type, written after a pending separator.
C14_Witness ==
  /\ caller.phase = "written"
  /\ caller.arg = -Pow2(IntBits - 1)
  /\ prev.need_comma = TRUE
  /\ IntText[1] = MINUS

-----------------------------------------------------------------------------
(* The calls of the documented example in any order (SpecExample): start(), *)
(* add("id", 42), addString("name", "a\"b") and end() on a new builder;    *)
(* the caller records the calls it made.  With a string literal as the key *)
(* add and addString resolve to the runtime-key overloads.                 *)

MaxExample == 4    \* public calls per behaviour of SpecExample

InitExample == InitBuilder /\ caller = [phase |-> "example", calls |-> <<>>]

ExampleCall(name, nb) ==
  /\ caller.phase = "example"
  /\ Len(caller.calls) < MaxExample
  /\ Step(name, nb)
  /\ caller' = [caller EXCEPT !.calls = Append(@, name)]
  /\ UNCHANGED <<ref, resets, taken>>

Id == <<105, 100>>                 \* id
Name == <<110, 97, 109, 101>>      \* name
AQuoteB == <<97, QUOTE, 98>>       \* a"b

NextExample ==
  \/ ExampleCall("start", start(Self))
  \/ ExampleCall("add", addInt(Self, Id, 42, IntBits))
  \/ ExampleCall("addString", addString(Self, Name, AQuoteB))
  \/ ExampleCall("end", end(Self))

SpecExample == InitExample /\ [][NextExample]_vars

\* C19: after start(), add("id", 42), addString("name", a"b), end() on a new
\* builder str() is {"id":42,"name":"a\"b"}.
C19_Example ==
  caller.calls = <<"start", "add", "addString", "end">> =>
    str(Self) = <<LBRACE, QUOTE>> \o Id \o <<QUOTE, COLON, 52, 50, COMMA, QUOTE>>
                  \o Name \o <<QUOTE, COLON, QUOTE, 97, BACKSLASH, QUOTE, 98,
                               QUOTE, RBRACE>>

\* The four calls of the example have been made in the example's order.
C19_Witness ==
  /\ caller.calls = <<"start", "add", "addString", "end">>
  /\ cursor = 23
  /\ need_comma = TRUE

-----------------------------------------------------------------------------
(* Any public calls but addRaw and valueRaw, in any order (SpecSep).  The   *)
(* caller records where the builder wrote a separator comma (seps: the     *)
(* byte written by comma(), by appendKeyImpl or by the inlined key prefix  *)
(* of a literal-key overload when need_comma was set), and where it wrote  *)
(* a '{', a '[' or the ':' of a key (marks), as positions 1.. of the       *)
(* output; clear() and take() empty the output and both records.  Keys and *)
(* values contain commas of their own.                                     *)

MaxSep == 3    \* public calls per behaviour of SpecSep

InitSep == InitBuilder /\ caller = [phase |-> "sep", seps |-> {}, marks |-> {}]

\* The call `name` makes the builder nb; sep tells whether its code starts
\* with the separator step, mark is where it writes an opener or a colon.
SepCall(name, nb, sep, mark) ==
  /\ caller.phase = "sep"
  /\ nops < MaxSep
  /\ Step(name, nb)
  /\ caller' = [phase |-> "sep",
                seps |-> caller.seps \cup
                           (IF sep /\ need_comma THEN {cursor + 1} ELSE {}),
                marks |-> caller.marks \cup mark]
  /\ UNCHANGED <<ref, resets, taken>>

SepKeys == {<<>>, <<COMMA>>}       \* "" and ","
Commas == <<COMMA, COMMA>>         \* the value ,,

\* The position of the colon of the key k written by the next call.
ColonOf(k) == {key(Self, k).cursor}

NextSep ==
  \/ /\ caller.phase = "sep"
     /\ nops < MaxSep
     /\ Step("clear", clear(Self))
     /\ caller' = [phase |-> "sep", seps |-> {}, marks |-> {}]
     /\ UNCHANGED <<ref, resets, taken>>
  \/ /\ caller.phase = "sep"
     /\ nops < MaxSep
     /\ Step("take", take(Self).b)
     /\ taken' = take(Self).result
     /\ caller' = [phase |-> "sep", seps |-> {}, marks |-> {}]
     /\ UNCHANGED <<ref, resets>>
  \/ SepCall("str", Self, FALSE, {})
  \/ SepCall("start", start(Self), TRUE, {start(Self).cursor})
  \/ SepCall("startArray", startArray(Self), TRUE, {startArray(Self).cursor})
  \/ SepCall("end", end(Self), FALSE, {})
  \/ SepCall("endArray", endArray(Self), FALSE, {})
  \/ \E k \in SepKeys : SepCall("key", key(Self, k), TRUE, ColonOf(k))
  \* literal-key overloads
  \/ SepCall("add<N>", addLitInt(Self, K, -7, IntBits), TRUE, ColonOf(K))
  \/ SepCall("add<N>", addLitUInt(Self, K, 15), TRUE, ColonOf(K))
  \/ \E x \in DoubleTexts :
      SepCall("add<N>", addLitDouble(Self, K, x), TRUE, ColonOf(K))
  \/ SepCall("add<N>", addLitBool(Self, K, TRUE), TRUE, ColonOf(K))
  \/ SepCall("addNull<N>", addLitNull(Self, K), TRUE, ColonOf(K))
  \/ SepCall("addString<N>", addLitString(Self, K, Commas), TRUE, ColonOf(K))
  \/ SepCall("addSafe", addLitSafe(Self, K, Commas), TRUE, ColonOf(K))
  \/ SepCall("addSafe", addLitSafeLit(Self, K, <<>>), TRUE, ColonOf(K))
  \/ SepCall("addStringOrNull(char*)", addLitStringOrNullC(Self, K, NULLPTR),
             TRUE, ColonOf(K))
  \/ SepCall("addStringOrNull<N>", addLitStringOrNull(Self, K, <<>>), TRUE,
             ColonOf(K))
  \* addIf, addStringIf
  \/ \E c \in BOOLEAN :
      SepCall("addIf", addIf(Self, c, K, 0, IntBits), c,
              IF c THEN ColonOf(K) ELSE {})
  \/ \E c \in BOOLEAN :
      SepCall("addStringIf", addStringIf(Self, c, K, Commas), c,
              IF c THEN ColonOf(K) ELSE {})
  \* runtime-key overloads
  \/ SepCall("add", addInt(Self, K, 0, IntBits), TRUE, ColonOf(K))
  \/ SepCall("add", addUInt(Self, K, 15), TRUE, ColonOf(K))
  \/ \E x \in DoubleTexts :
      SepCall("add", addDouble(Self, K, x), TRUE, ColonOf(K))
  \/ SepCall("add", addBool(Self, K, FALSE), TRUE, ColonOf(K))
  \/ SepCall("addString", addString(Self, K, <<>>), TRUE, ColonOf(K))
  \/ SepCall("addNull", addNull(Self, K), TRUE, ColonOf(K))
  \/ SepCall("addOrNull", addOrNull(Self, K, Sentinel, Sentinel, IntBits),
             TRUE, ColonOf(K))
  \/ SepCall("addStringOrNull", addStringOrNull(Self, K, Commas), TRUE,
             ColonOf(K))
  \* bare values
  \/ SepCall("value", valueInt(Self, 0, IntBits), TRUE, {})
  \/ SepCall("value", valueUInt(Self, 15), TRUE, {})
  \/ \E x \in DoubleTexts : SepCall("value", valueDouble(Self, x), TRUE, {})
  \/ SepCall("value", valueBool(Self, TRUE), TRUE, {})
  \/ SepCall("value", valueString(Self, Commas), TRUE, {})
  \/ SepCall("valueNull", valueNull(Self), TRUE, {})
  \/ SepCall("valueSafe", valueSafe(Self, Commas), TRUE, {})
  \/ SepCall("valueSafe", valueSafeLit(Self, <<>>), TRUE, {})
  \/ SepCall("valueOrNull", valueOrNull(Self, -7, Sentinel, IntBits), TRUE,
             {})
  \/ SepCall("valueStringOrNull", valueStringOrNull(Self, <<>>), TRUE, {})
  \/ SepCall("valueStringOrNull(char*)", valueStringOrNullC(Self, <<97>>),
             TRUE, {})

SpecSep == InitSep /\ [][NextSep]_vars

\* C21: whatever public calls other than addRaw and valueRaw are made, a
\* separator comma written by the builder is never the first byte of the
\* output, never directly follows a '{', a '[' or the ':' of a key written
\* by the builder, is never directly followed by another separator comma
\* and is never the last byte of [0, cursor) when a call returns.  The
\* recorded positions are those of the separators: each holds a comma, and
\* the first byte a call wrote while need_comma was set is a comma only as
\* a recorded separator.
C21_SeparatorHygiene ==
  /\ \A p \in caller.seps :
       /\ p \in 1..cursor /\ buf.data[p] = COMMA
       /\ p # 1
       /\ (p - 1) \notin caller.marks
       /\ (p + 1) \notin caller.seps
       /\ p # cursor
  /\ \A m \in caller.marks :
       m \in 1..cursor /\ buf.data[m] \in {LBRACE, LBRACKET, COLON}
  /\ LET first == Len(prev.str) + 1
     IN  /\ lastOp \notin {"new", "clear", "take"}
         /\ prev.need_comma
         /\ cursor >= first
         /\ buf.data[first] = COMMA
         => first \in caller.seps
  /\ oob = FALSE

\* Three calls have written two separators, an opener and a colon, next to
\* commas that belong to a key or a value.
C21_Witness ==
  /\ Cardinality(caller.seps) = 2
  /\ caller.marks # {}
  /\ \E p \in 1..cursor : p \notin caller.seps /\ buf.data[p] = COMMA

=============================================================================
